---- MODULE Spec2Model ----
(***************************************************************************)
(* The real-time synchronisation client of the token dashboard             *)
(* (frontend/src/App.tsx): the WebSocket connection manager with its       *)
(* heartbeat and reconnection timers, the inbound message dispatcher and   *)
(* the token refresh.                                                      *)
(*                                                                         *)
(* The component's refs and React state are the variables.  Every handler  *)
(* of the source is an operator from a state record to a state record, so  *)
(* that an action is the handler applied to the current state.  Time is    *)
(* discrete: one Tick is TICK milliseconds, a timer fires when its         *)
(* remaining delay is 0, and time does not advance past a due timer.       *)
(*                                                                         *)
(* The token list (components/TokenEventsList.tsx: filter, sort) and the   *)
(* token card (components/TokenEventCard.tsx: security level, analysis     *)
(* models) are pure functions of their props and state.  SpecList and      *)
(* SpecCard draw those inputs from bounded sets and let the component      *)
(* compute what it shows.                                                  *)
(***************************************************************************)
EXTENDS Integers, Sequences, FiniteSets, TLC

VARIABLES
    sockets,               \* every WebSocket object created so far, by id
    wsRef,                 \* wsRef.current: a socket id, 0 for null
    isReconnecting,        \* isReconnecting.current
    reconnectTimeoutRef,   \* the reconnect-delay timer
    heartbeatIntervalRef,  \* the heartbeat interval timer
    heartbeatTimeoutRef,   \* the heartbeat timeout timer
    sinceResponse,         \* Date.now() - lastHeartbeatResponse.current
    retryCount,            \* React state retryCount
    rendered,              \* retryCount of the render whose effect ran last
    error,                 \* React state error
    isConnected,           \* React state isConnected
    tokens,                \* React state tokens (a payload id, 0 for [])
    loading,               \* React state loading
    initialLoadDone,       \* initialLoadDone.current
    inflight,              \* fetch requests awaiting their response
    phase,                 \* "init" | "mounted" | "unmounted"
    tokensProp,            \* TokenEventsList: the tokens prop
    filters,               \* TokenEventsList: React state filters
    filteredTokens,        \* TokenEventsList: React state filteredTokens
    listEffectDone,        \* TokenEventsList: the filter/sort effect has run
    token,                 \* TokenEventCard: the token prop
    card,                  \* TokenEventCard: the values it renders
    pending,               \* SpecRefresh: the fetch requests in flight, by number
    arrived                \* SpecRefresh: the responses in order of arrival

appVars == <<sockets, wsRef, isReconnecting, reconnectTimeoutRef,
          heartbeatIntervalRef, heartbeatTimeoutRef, sinceResponse,
          retryCount, rendered, error, isConnected, tokens, loading,
          initialLoadDone, inflight, phase>>

refreshVars == <<pending, arrived>>

viewVars == <<tokensProp, filters, filteredTokens, listEffectDone, token, card>>

vars == <<appVars, viewVars, refreshVars>>

----------------------------------------------------------------------------
(* Program constants *)

MAX_RETRIES == 5
RETRY_INTERVAL == 5000
HEARTBEAT_INTERVAL == 15000
HEARTBEAT_TIMEOUT == 5000

(* Bounds of the model *)

MaxSockets == 4        \* WebSocket objects created in one behaviour
MaxInflight == 1       \* fetch requests in flight at once
MaxPayload == 1        \* distinct token collections the API can return
MaxIdleTicks == 5      \* elapsed times saturate at MaxIdleTicks * TICK

TICK == HEARTBEAT_TIMEOUT
IdleCap == MaxIdleTicks * TICK
ResponseCap == HEARTBEAT_TIMEOUT + TICK

Min(a, b) == IF a < b THEN a ELSE b

NoError == "null"
ErrHttp == "HTTP error! status"
ErrFormat == "Invalid API response format"
ErrMaxRetries == "Maximum reconnection attempts reached"

MessageKinds == {"PONG", "NEW_TOKEN", "NEW_TOKEN_NO_PAYLOAD", "CONNECTED",
                 "UNKNOWN", "MALFORMED"}

FetchResults == {"ok", "http_error", "bad_body"}

NoTimer == [on |-> FALSE, left |-> 0, ws |-> 0, rc |-> 0]

(* The state as one record, the argument and result of every handler. *)
State ==
    [sockets |-> sockets, wsRef |-> wsRef, isReconnecting |-> isReconnecting,
     reconnectTimeoutRef |-> reconnectTimeoutRef,
     heartbeatIntervalRef |-> heartbeatIntervalRef,
     heartbeatTimeoutRef |-> heartbeatTimeoutRef,
     sinceResponse |-> sinceResponse, retryCount |-> retryCount,
     rendered |-> rendered, error |-> error, isConnected |-> isConnected,
     tokens |-> tokens, loading |-> loading,
     initialLoadDone |-> initialLoadDone, inflight |-> inflight,
     phase |-> phase]

BecomesApp(st) ==
    /\ sockets' = st.sockets
    /\ wsRef' = st.wsRef
    /\ isReconnecting' = st.isReconnecting
    /\ reconnectTimeoutRef' = st.reconnectTimeoutRef
    /\ heartbeatIntervalRef' = st.heartbeatIntervalRef
    /\ heartbeatTimeoutRef' = st.heartbeatTimeoutRef
    /\ sinceResponse' = st.sinceResponse
    /\ retryCount' = st.retryCount
    /\ rendered' = st.rendered
    /\ error' = st.error
    /\ isConnected' = st.isConnected
    /\ tokens' = st.tokens
    /\ loading' = st.loading
    /\ initialLoadDone' = st.initialLoadDone
    /\ inflight' = st.inflight
    /\ phase' = st.phase
    /\ UNCHANGED viewVars

Becomes(st) == BecomesApp(st) /\ UNCHANGED refreshVars

----------------------------------------------------------------------------
(* React state setters: an update of an unmounted component is dropped. *)

setRetryCount(st, v) ==
    IF st.phase = "mounted" THEN [st EXCEPT !.retryCount = v] ELSE st

setError(st, e) ==
    IF st.phase = "mounted" THEN [st EXCEPT !.error = e] ELSE st

setIsConnected(st, b) ==
    IF st.phase = "mounted" THEN [st EXCEPT !.isConnected = b] ELSE st

setTokens(st, t) ==
    IF st.phase = "mounted" THEN [st EXCEPT !.tokens = t] ELSE st

setLoading(st, b) ==
    IF st.phase = "mounted" THEN [st EXCEPT !.loading = b] ELSE st

----------------------------------------------------------------------------
(* The WebSocket object *)

NewSocket(rc) ==
    [readyState |-> "CONNECTING", rc |-> rc, idle |-> 0, pinged |-> FALSE,
     hbCloses |-> 0]

(* A socket whose close event was delivered: nothing of it is read again. *)
ClosedSocket ==
    [readyState |-> "CLOSED", rc |-> 0, idle |-> 0, pinged |-> FALSE,
     hbCloses |-> 0]

ReadyState(st, ws) == IF ws = 0 THEN "NONE" ELSE st.sockets[ws].readyState

(* ws.close(): a socket that is connecting or open starts closing; its     *)
(* close event is delivered later.                                         *)
wsClose(st, ws) ==
    IF ReadyState(st, ws) \in {"CONNECTING", "OPEN"}
    THEN [st EXCEPT !.sockets[ws].readyState = "CLOSING"]
    ELSE st

(* ws.send(PING) *)
wsSendPing(st, ws) ==
    [st EXCEPT !.sockets[ws].pinged = TRUE]

----------------------------------------------------------------------------
(* Timer helpers *)

clearReconnectTimeout(st) == [st EXCEPT !.reconnectTimeoutRef = NoTimer]

clearHeartbeatInterval(st) ==
    [st EXCEPT !.heartbeatIntervalRef = NoTimer,
               !.heartbeatTimeoutRef = NoTimer]

sendHeartbeat(st, ws) ==
    IF ReadyState(st, ws) = "OPEN"
    THEN [wsSendPing(st, ws) EXCEPT
            !.heartbeatTimeoutRef =
                [on |-> TRUE, left |-> HEARTBEAT_TIMEOUT, ws |-> ws, rc |-> 0]]
    ELSE st

startHeartbeat(st, ws) ==
    LET s1 == clearHeartbeatInterval(st)
        s2 == [s1 EXCEPT !.heartbeatIntervalRef =
                 [on |-> TRUE, left |-> HEARTBEAT_INTERVAL, ws |-> ws, rc |-> 0]]
    IN sendHeartbeat(s2, ws)

(* The timeout callback closing without looking at the elapsed time *)
heartbeatTimeoutCallback_AlwaysCloses(st) ==
    LET ws == st.heartbeatTimeoutRef.ws
        s1 == [st EXCEPT !.heartbeatTimeoutRef.on = FALSE]
    IN [wsClose(s1, ws) EXCEPT !.sockets[ws].hbCloses = Min(@ + 1, 2)]

(* The heartbeat timeout's callback *)
heartbeatTimeoutCallback(st) ==
    LET ws == st.heartbeatTimeoutRef.ws
        s1 == [st EXCEPT !.heartbeatTimeoutRef.on = FALSE]
    IN IF s1.sinceResponse > HEARTBEAT_TIMEOUT
       THEN [wsClose(s1, ws) EXCEPT
               !.sockets[ws].hbCloses = Min(@ + 1, 2)]
       ELSE s1

----------------------------------------------------------------------------
(* fetchTokens: the request is issued here, FetchComplete handles the      *)
(* response.                                                               *)

fetchTokens(st) == [st EXCEPT !.inflight = @ + 1]

markInitialLoad(st) ==
    IF ~st.initialLoadDone
    THEN [setLoading(st, FALSE) EXCEPT !.initialLoadDone = TRUE]
    ELSE st

(* Mutant: a failed refresh also empties the collection. *)
fetchTokensDone_ClearsOnFailure(st, res, payload) ==
    LET s1 == [st EXCEPT !.inflight = @ - 1]
    IN CASE res = "ok" -> markInitialLoad(setTokens(s1, payload))
         [] res = "http_error" ->
              markInitialLoad(setError(setTokens(s1, 0), ErrHttp))
         [] OTHER -> markInitialLoad(setError(setTokens(s1, 0), ErrFormat))

(* A completion that withdraws the surfaced error on success *)
fetchTokensDone_ClearsErrorOnSuccess(st, res, payload) ==
    LET s1 == [st EXCEPT !.inflight = @ - 1]
    IN CASE res = "ok" ->
              markInitialLoad(setError(setTokens(s1, payload), NoError))
         [] res = "http_error" -> markInitialLoad(setError(s1, ErrHttp))
         [] OTHER -> markInitialLoad(setError(s1, ErrFormat))

(* A completion that keeps a collection already loaded *)
fetchTokensDone_FirstWins(st, res, payload) ==
    LET s1 == [st EXCEPT !.inflight = @ - 1]
    IN CASE res = "ok" ->
              markInitialLoad(setTokens(s1, IF st.tokens = 0 THEN payload
                                            ELSE st.tokens))
         [] res = "http_error" -> markInitialLoad(setError(s1, ErrHttp))
         [] OTHER -> markInitialLoad(setError(s1, ErrFormat))

fetchTokensDone(st, res, payload) ==
    LET s1 == [st EXCEPT !.inflight = @ - 1]
    IN CASE res = "ok" -> markInitialLoad(setTokens(s1, payload))
         [] res = "http_error" -> markInitialLoad(setError(s1, ErrHttp))
         [] OTHER -> markInitialLoad(setError(s1, ErrFormat))

----------------------------------------------------------------------------
(* Mutant: connectWebSocket without the check for an Open socket. *)
connectWebSocket_NoOpenCheck(st, rc) ==
    IF st.isReconnecting THEN st
    ELSE LET s1 == clearHeartbeatInterval(
                     clearReconnectTimeout(
                       [st EXCEPT !.isReconnecting = TRUE]))
             s2 == IF s1.wsRef # 0
                   THEN [wsClose(s1, s1.wsRef) EXCEPT !.wsRef = 0]
                   ELSE s1
         IN [s2 EXCEPT !.sockets = Append(@, NewSocket(rc)),
                       !.wsRef = Len(s2.sockets) + 1]

(* connectWebSocket, of the render whose retryCount is rc *)

connectWebSocket(st, rc) ==
    IF st.isReconnecting THEN st
    ELSE IF ReadyState(st, st.wsRef) = "OPEN" THEN st
    ELSE LET s1 == clearHeartbeatInterval(
                     clearReconnectTimeout(
                       [st EXCEPT !.isReconnecting = TRUE]))
             s2 == IF s1.wsRef # 0
                   THEN [wsClose(s1, s1.wsRef) EXCEPT !.wsRef = 0]
                   ELSE s1
         IN [s2 EXCEPT !.sockets = Append(@, NewSocket(rc)),
                       !.wsRef = Len(s2.sockets) + 1]

(* ws.onopen *)
(* The open handler without the reset of the retry counter *)
onopen_KeepsRetryCount(st, ws) ==
    LET s1 == setIsConnected(st, TRUE)
        s3 == setError(s1, NoError)
        s4 == [s3 EXCEPT !.isReconnecting = FALSE]
    IN startHeartbeat(s4, ws)

onopen(st, ws) ==
    LET s1 == setIsConnected(st, TRUE)
        s2 == setRetryCount(s1, 0)
        s3 == setError(s2, NoError)
        s4 == [s3 EXCEPT !.isReconnecting = FALSE]
    IN startHeartbeat(s4, ws)

(* Mutant: NEW_TOKEN refreshes whether or not it carries a token. *)
onmessage_RefreshWithoutPayload(st, ws, kind) ==
    IF kind = "MALFORMED" THEN st
    ELSE LET s1 == [st EXCEPT !.sinceResponse = 0]
         IN CASE kind = "PONG" -> [s1 EXCEPT !.heartbeatTimeoutRef = NoTimer]
              [] kind \in {"NEW_TOKEN", "NEW_TOKEN_NO_PAYLOAD"} -> fetchTokens(s1)
              [] OTHER -> s1

(* ws.onmessage *)
(* A message handler that stores the announced token itself *)
onmessage_StoresToken(st, ws, kind) ==
    IF kind = "MALFORMED" THEN st
    ELSE LET s1 == [st EXCEPT !.sinceResponse = 0]
         IN CASE kind = "PONG" -> [s1 EXCEPT !.heartbeatTimeoutRef = NoTimer]
              [] kind = "NEW_TOKEN" -> fetchTokens(setTokens(s1, 1))
              [] OTHER -> s1

onmessage_LivenessBeforeParse(st, ws, kind) ==
    LET s1 == [st EXCEPT !.sinceResponse = 0]
    IN CASE kind = "PONG" -> [s1 EXCEPT !.heartbeatTimeoutRef = NoTimer]
         [] kind = "NEW_TOKEN" -> fetchTokens(s1)
         [] OTHER -> s1

onmessage(st, ws, kind) ==
    IF kind = "MALFORMED" THEN st
    ELSE LET s1 == [st EXCEPT !.sinceResponse = 0]
         IN CASE kind = "PONG" -> [s1 EXCEPT !.heartbeatTimeoutRef = NoTimer]
              [] kind = "NEW_TOKEN" -> fetchTokens(s1)
              [] OTHER -> s1

(* ws.onerror *)
onerror(st, ws) == wsClose(setIsConnected(st, FALSE), ws)

(* The reconnect timer set by ws.onclose *)
scheduleReconnect(st, rc) ==
    LET s1 == clearReconnectTimeout([st EXCEPT !.isReconnecting = TRUE])
    IN [s1 EXCEPT !.reconnectTimeoutRef =
          [on |-> TRUE, left |-> RETRY_INTERVAL, ws |-> 0, rc |-> rc]]

(* ws.onclose, of the socket whose handlers closed over retryCount rc *)
onclose(st, rc) ==
    LET s1 == clearHeartbeatInterval(
                [setIsConnected(st, FALSE) EXCEPT !.wsRef = 0])
    IN IF rc < MAX_RETRIES /\ ~s1.isReconnecting
       THEN scheduleReconnect(s1, rc)
       ELSE IF rc >= MAX_RETRIES
            THEN [setError(s1, ErrMaxRetries) EXCEPT !.isReconnecting = FALSE]
            ELSE s1

(* The reconnect timer's callback *)
(* A reconnect callback that counts the attempts down *)
reconnectCallback_CountsDown(st) ==
    LET rc == st.reconnectTimeoutRef.rc
        s1 == [st EXCEPT !.reconnectTimeoutRef.on = FALSE]
        s2 == setRetryCount(s1, s1.retryCount - 1)
        s3 == [s2 EXCEPT !.isReconnecting = FALSE]
    IN connectWebSocket(s3, rc)

reconnectCallback(st) ==
    LET rc == st.reconnectTimeoutRef.rc
        s1 == [st EXCEPT !.reconnectTimeoutRef.on = FALSE]
        s2 == setRetryCount(s1, s1.retryCount + 1)
        s3 == [s2 EXCEPT !.isReconnecting = FALSE]
    IN connectWebSocket(s3, rc)

(* Mutant: the cleanup forgets the reconnect timer. *)
cleanup_KeepsReconnectTimer(st) ==
    LET s1 == clearHeartbeatInterval(st)
        s2 == IF s1.wsRef # 0
              THEN [wsClose(s1, s1.wsRef) EXCEPT !.wsRef = 0]
              ELSE s1
    IN [s2 EXCEPT !.isReconnecting = FALSE]

(* The cleanup of the initial-setup effect *)
cleanup(st) ==
    LET s1 == clearHeartbeatInterval(clearReconnectTimeout(st))
        s2 == IF s1.wsRef # 0
              THEN [wsClose(s1, s1.wsRef) EXCEPT !.wsRef = 0]
              ELSE s1
    IN [s2 EXCEPT !.isReconnecting = FALSE]

(* The body of the initial-setup effect, of the render with retryCount rc *)
setupEffect(st, rc) ==
    fetchTokens(connectWebSocket([st EXCEPT !.rendered = rc], rc))

(* handleReconnectClick, of the render with retryCount rc *)
handleReconnectClick(st, rc) == connectWebSocket(setRetryCount(st, 0), rc)

----------------------------------------------------------------------------
(* Token records (the Token type as the components read it)                *)

(* A text is a sequence of characters; a number field that the API left    *)
(* out is Undefined.                                                       *)
Undefined == -1

OrZero(x) == IF x = Undefined THEN 0 ELSE x      \* x || 0

(* The record of the scoring scenario: every risk flag clear. *)
BaseToken ==
    [address |-> 0, name |-> <<"a", "B">>, symbol |-> <<"A">>,
     gpHolderCount |-> 150, liq30 |-> 60000,
     isHoneypot |-> FALSE, gpIsBlacklisted |-> FALSE, gpIsAntiWhale |-> FALSE,
     gpIsOpenSource |-> TRUE, gpIsProxy |-> FALSE, gpIsMintable |-> FALSE,
     gpExternalCall |-> FALSE, gpCannotBuy |-> FALSE,
     gpCannotSellAll |-> FALSE, gpTradingCooldown |-> FALSE,
     gpTransferPausable |-> FALSE, gpHiddenOwner |-> FALSE,
     gpCanTakeBackOwnership |-> FALSE, gpOwnerChangeBalance |-> FALSE,
     gpAntiWhaleModifiable |-> FALSE, gpSlippageModifiable |-> FALSE,
     gpBuyTax |-> 5, gpSellTax |-> 5,
     totalScans |-> 100, honeypotFailures |-> 0,
     buyGas |-> 50000, sellGas |-> 50000,
     holdersChanged |-> TRUE, liquidityChanged |-> TRUE,
     ageHours |-> 2, creationTime |-> 200, safetyScore |-> 80]

(* The boolean security flags of a record *)
RiskFlags ==
    {"isHoneypot", "gpIsBlacklisted", "gpIsAntiWhale", "gpIsOpenSource",
     "gpIsProxy", "gpIsMintable", "gpExternalCall", "gpCannotBuy",
     "gpCannotSellAll", "gpTradingCooldown", "gpTransferPausable",
     "gpHiddenOwner", "gpCanTakeBackOwnership", "gpOwnerChangeBalance",
     "gpAntiWhaleModifiable", "gpSlippageModifiable"}

SetFlags(t, on) == [k \in DOMAIN t |-> IF k \in RiskFlags THEN k \in on ELSE t[k]]

----------------------------------------------------------------------------
(* Security classification *)

(* TokenEventsList.filterTokens: isDangerous / hasWarnings / isSafe *)
isDangerous(t) == t.isHoneypot \/ (t.gpIsBlacklisted /\ ~t.gpIsAntiWhale)

(* hasWarnings without its "not dangerous" guard *)
hasWarnings_IgnoresDanger(t) ==
    \/ ~t.gpIsOpenSource
    \/ t.gpIsProxy
    \/ t.gpIsMintable
    \/ t.gpExternalCall
    \/ t.gpCannotBuy
    \/ t.gpCannotSellAll
    \/ t.gpTradingCooldown
    \/ t.gpTransferPausable
    \/ t.gpHiddenOwner
    \/ t.gpCanTakeBackOwnership
    \/ t.gpOwnerChangeBalance
    \/ t.gpBuyTax > 10
    \/ t.gpSellTax > 10
    \/ (t.gpIsAntiWhale /\ t.gpAntiWhaleModifiable)
    \/ t.gpSlippageModifiable

hasWarnings(t) ==
    /\ ~isDangerous(t)
    /\ \/ ~t.gpIsOpenSource
       \/ t.gpIsProxy
       \/ t.gpIsMintable
       \/ t.gpExternalCall
       \/ t.gpCannotBuy
       \/ t.gpCannotSellAll
       \/ t.gpTradingCooldown
       \/ t.gpTransferPausable
       \/ t.gpHiddenOwner
       \/ t.gpCanTakeBackOwnership
       \/ t.gpOwnerChangeBalance
       \/ t.gpBuyTax > 10
       \/ t.gpSellTax > 10
       \/ (t.gpIsAntiWhale /\ t.gpAntiWhaleModifiable)
       \/ t.gpSlippageModifiable

isSafe(t) == ~isDangerous(t) /\ ~hasWarnings(t)

(* TokenEventCard.getWarningReasons: the reasons pushed, as a set *)
(* The card warning of a buy tax of 10 already *)
getWarningReasons_TaxFromTen(t) ==
    {r \in {"honeypot", "blacklisted", "not open source", "proxy", "mintable",
            "external calls", "cannot buy", "cannot sell all", "cooldown",
            "pausable", "hidden owner", "take back ownership",
            "owner change balance", "buy tax", "sell tax",
            "anti-whale modifiable", "slippage modifiable"} :
        CASE r = "honeypot" -> t.isHoneypot
          [] r = "blacklisted" -> t.gpIsBlacklisted /\ ~t.gpIsAntiWhale
          [] r = "not open source" -> ~t.gpIsOpenSource
          [] r = "proxy" -> t.gpIsProxy
          [] r = "mintable" -> t.gpIsMintable
          [] r = "external calls" -> t.gpExternalCall
          [] r = "cannot buy" -> t.gpCannotBuy
          [] r = "cannot sell all" -> t.gpCannotSellAll
          [] r = "cooldown" -> t.gpTradingCooldown
          [] r = "pausable" -> t.gpTransferPausable
          [] r = "hidden owner" -> t.gpHiddenOwner
          [] r = "take back ownership" -> t.gpCanTakeBackOwnership
          [] r = "owner change balance" -> t.gpOwnerChangeBalance
          [] r = "buy tax" -> t.gpBuyTax >= 10
          [] r = "sell tax" -> t.gpSellTax > 10
          [] r = "anti-whale modifiable" ->
                 t.gpIsAntiWhale /\ t.gpAntiWhaleModifiable
          [] r = "slippage modifiable" -> t.gpSlippageModifiable}

getWarningReasons(t) ==
    {r \in {"honeypot", "blacklisted", "not open source", "proxy", "mintable",
            "external calls", "cannot buy", "cannot sell all", "cooldown",
            "pausable", "hidden owner", "take back ownership",
            "owner change balance", "buy tax", "sell tax",
            "anti-whale modifiable", "slippage modifiable"} :
        CASE r = "honeypot" -> t.isHoneypot
          [] r = "blacklisted" -> t.gpIsBlacklisted /\ ~t.gpIsAntiWhale
          [] r = "not open source" -> ~t.gpIsOpenSource
          [] r = "proxy" -> t.gpIsProxy
          [] r = "mintable" -> t.gpIsMintable
          [] r = "external calls" -> t.gpExternalCall
          [] r = "cannot buy" -> t.gpCannotBuy
          [] r = "cannot sell all" -> t.gpCannotSellAll
          [] r = "cooldown" -> t.gpTradingCooldown
          [] r = "pausable" -> t.gpTransferPausable
          [] r = "hidden owner" -> t.gpHiddenOwner
          [] r = "take back ownership" -> t.gpCanTakeBackOwnership
          [] r = "owner change balance" -> t.gpOwnerChangeBalance
          [] r = "buy tax" -> t.gpBuyTax > 10
          [] r = "sell tax" -> t.gpSellTax > 10
          [] r = "anti-whale modifiable" ->
                 t.gpIsAntiWhale /\ t.gpAntiWhaleModifiable
          [] r = "slippage modifiable" -> t.gpSlippageModifiable}

securityLevel(t) ==
    IF t.isHoneypot \/ (t.gpIsBlacklisted /\ ~t.gpIsAntiWhale) THEN "danger"
    ELSE IF getWarningReasons(t) # {} THEN "warning"
    ELSE "safe"

----------------------------------------------------------------------------
(* TokenEventCard: the analysis models.  A score is an exact fraction      *)
(* num / den with den > 0.                                                 *)

Whole(n) == [num |-> n, den |-> 1]

calculateLiquidityScore(liq30) ==
    IF liq30 = Undefined THEN 0
    ELSE IF liq30 > 50000 THEN 25
    ELSE IF liq30 > 25000 THEN 20
    ELSE IF liq30 > 10000 THEN 15
    ELSE IF liq30 > 5000 THEN 10
    ELSE IF liq30 > 1000 THEN 5
    ELSE 0

calculateMarketScore(totalScans, honeypotFailures) ==
    IF totalScans = Undefined \/ honeypotFailures = Undefined THEN Whole(0)
    ELSE [num |-> (totalScans - honeypotFailures) * 25,
          den |-> IF totalScans > 1 THEN totalScans ELSE 1]

calculateGrowthScore(holderCount) ==
    IF holderCount = Undefined THEN 0
    ELSE IF holderCount > 100 THEN 25
    ELSE IF holderCount > 50 THEN 20
    ELSE IF holderCount > 25 THEN 15
    ELSE IF holderCount > 10 THEN 10
    ELSE IF holderCount > 5 THEN 5
    ELSE 0

securityScore(t) == IF t.gpIsOpenSource THEN 25 ELSE 0

(* marketScore * 0.15 + securityScore * 0.40 + liquidityScore * 0.25 +      *)
(* growthScore * 0.20, in hundredths over the market score's denominator.  *)
totalScore(t) ==
    LET marketScore == calculateMarketScore(t.totalScans, t.honeypotFailures)
        liquidityScore == calculateLiquidityScore(t.liq30)
        growthScore == calculateGrowthScore(t.gpHolderCount)
    IN [num |-> 15 * marketScore.num
                + marketScore.den * (40 * securityScore(t) + 25 * liquidityScore
                                     + 20 * growthScore),
        den |-> 100 * marketScore.den]

NoCard == [shown |-> FALSE]

TokenEventCard(t) ==
    [shown |-> TRUE,
     securityLevel |-> securityLevel(t),
     marketScore |-> calculateMarketScore(t.totalScans, t.honeypotFailures),
     securityScore |-> securityScore(t),
     liquidityScore |-> calculateLiquidityScore(t.liq30),
     growthScore |-> calculateGrowthScore(t.gpHolderCount),
     totalScore |-> totalScore(t)]

----------------------------------------------------------------------------
(* TokenEventsList: the filter state *)

DefaultFilters ==
    [minHolders |-> 0, minLiquidity |-> 0, hideHoneypots |-> FALSE,
     showOnlyHoneypots |-> FALSE, hideDanger |-> FALSE, hideWarning |-> FALSE,
     showOnlySafe |-> FALSE, searchQuery |-> << >>, sortBy |-> "age",
     sortDirection |-> "asc", maxRecords |-> 50,
     hideStagnantHolders |-> FALSE, hideStagnantLiquidity |-> FALSE,
     stagnantRecordCount |-> 10]

SortKeys == {"creationTime", "holders", "liquidity", "safetyScore", "age",
             "records"}

(* parseInt(e.target.value) || fallback: the number typed, the fallback    *)
(* for 0 (and for text that is no number).                                 *)
parseIntOr(typed, fallback) == IF typed = 0 THEN fallback ELSE typed

(* Text operations *)
ToLower(c) == IF c = "A" THEN "a" ELSE IF c = "B" THEN "b" ELSE c

toLowerCase(s) == [i \in 1..Len(s) |-> ToLower(s[i])]

includes(s, q) ==
    \E i \in 0..(Len(s) - Len(q)) : SubSeq(s, i + 1, i + Len(q)) = q

(* Array.prototype.slice(0, end) *)
slice(s, end) ==
    LET n == IF end < 0 THEN (IF Len(s) + end < 0 THEN 0 ELSE Len(s) + end)
             ELSE Min(end, Len(s))
    IN SubSeq(s, 1, n)

(* The predicate of filterTokens' filter() call *)
(* The filter predicate with "show only honeypots" overriding "hide       *)
(* honeypots"                                                              *)
passesFilters_ShowOnlyWins(t, f) ==
    LET holderCount == OrZero(t.gpHolderCount)
        liquidity == OrZero(t.liq30)
        searchLower == toLowerCase(f.searchQuery)
        nameMatch == includes(toLowerCase(t.name), searchLower)
        symbolMatch == includes(toLowerCase(t.symbol), searchLower)
        recordCount == OrZero(t.totalScans)
    IN /\ ~(f.searchQuery # << >> /\ ~nameMatch /\ ~symbolMatch)
       /\ ~(holderCount < f.minHolders)
       /\ ~(liquidity < f.minLiquidity)
       /\ ~(f.hideHoneypots /\ ~f.showOnlyHoneypots /\ t.isHoneypot)
       /\ ~(f.showOnlyHoneypots /\ ~t.isHoneypot)
       /\ ~(f.hideDanger /\ isDangerous(t))
       /\ ~(f.hideWarning /\ hasWarnings(t))
       /\ ~(f.showOnlySafe /\ ~isSafe(t))
       /\ ~(/\ f.hideStagnantHolders \/ f.hideStagnantLiquidity
            /\ recordCount >= f.stagnantRecordCount
            /\ \/ f.hideStagnantHolders /\ ~t.holdersChanged
               \/ f.hideStagnantLiquidity /\ ~t.liquidityChanged)

(* The warning toggle taking effect only without the danger toggle *)
passesFilters_HideWarningAlone(t, f) ==
    LET holderCount == OrZero(t.gpHolderCount)
        liquidity == OrZero(t.liq30)
        searchLower == toLowerCase(f.searchQuery)
        nameMatch == includes(toLowerCase(t.name), searchLower)
        symbolMatch == includes(toLowerCase(t.symbol), searchLower)
        recordCount == OrZero(t.totalScans)
    IN /\ ~(f.searchQuery # << >> /\ ~nameMatch /\ ~symbolMatch)
       /\ ~(holderCount < f.minHolders)
       /\ ~(liquidity < f.minLiquidity)
       /\ ~(f.hideHoneypots /\ t.isHoneypot)
       /\ ~(f.showOnlyHoneypots /\ ~t.isHoneypot)
       /\ ~(f.hideDanger /\ isDangerous(t))
       /\ ~(f.hideWarning /\ ~f.hideDanger /\ hasWarnings(t))
       /\ ~(f.showOnlySafe /\ ~isSafe(t))
       /\ ~(/\ f.hideStagnantHolders \/ f.hideStagnantLiquidity
            /\ recordCount >= f.stagnantRecordCount
            /\ \/ f.hideStagnantHolders /\ ~t.holdersChanged
               \/ f.hideStagnantLiquidity /\ ~t.liquidityChanged)

(* The stagnation test ignoring which of its two toggles is on *)
passesFilters_StagnantNeedsBoth(t, f) ==
    LET holderCount == OrZero(t.gpHolderCount)
        liquidity == OrZero(t.liq30)
        searchLower == toLowerCase(f.searchQuery)
        nameMatch == includes(toLowerCase(t.name), searchLower)
        symbolMatch == includes(toLowerCase(t.symbol), searchLower)
        recordCount == OrZero(t.totalScans)
    IN /\ ~(f.searchQuery # << >> /\ ~nameMatch /\ ~symbolMatch)
       /\ ~(holderCount < f.minHolders)
       /\ ~(liquidity < f.minLiquidity)
       /\ ~(f.hideHoneypots /\ t.isHoneypot)
       /\ ~(f.showOnlyHoneypots /\ ~t.isHoneypot)
       /\ ~(f.hideDanger /\ isDangerous(t))
       /\ ~(f.hideWarning /\ hasWarnings(t))
       /\ ~(f.showOnlySafe /\ ~isSafe(t))
       /\ ~(/\ f.hideStagnantHolders \/ f.hideStagnantLiquidity
            /\ recordCount >= f.stagnantRecordCount
            /\ ~t.holdersChanged /\ ~t.liquidityChanged)

passesFilters(t, f) ==
    LET holderCount == OrZero(t.gpHolderCount)
        liquidity == OrZero(t.liq30)
        searchLower == toLowerCase(f.searchQuery)
        nameMatch == includes(toLowerCase(t.name), searchLower)
        symbolMatch == includes(toLowerCase(t.symbol), searchLower)
        recordCount == OrZero(t.totalScans)
    IN /\ ~(f.searchQuery # << >> /\ ~nameMatch /\ ~symbolMatch)
       /\ ~(holderCount < f.minHolders)
       /\ ~(liquidity < f.minLiquidity)
       /\ ~(f.hideHoneypots /\ t.isHoneypot)
       /\ ~(f.showOnlyHoneypots /\ ~t.isHoneypot)
       /\ ~(f.hideDanger /\ isDangerous(t))
       /\ ~(f.hideWarning /\ hasWarnings(t))
       /\ ~(f.showOnlySafe /\ ~isSafe(t))
       /\ ~(/\ f.hideStagnantHolders \/ f.hideStagnantLiquidity
            /\ recordCount >= f.stagnantRecordCount
            /\ \/ f.hideStagnantHolders /\ ~t.holdersChanged
               \/ f.hideStagnantLiquidity /\ ~t.liquidityChanged)

filterTokens(tokensToFilter, f) ==
    slice(SelectSeq(tokensToFilter, LAMBDA t : passesFilters(t, f)),
          f.maxRecords)

(* The comparator of sortTokens *)
(* The sort key with the stored safetyScore used for honeypots too *)
sortKey_StoredSafetyScore(t, f) ==
    CASE f.sortBy = "records" -> OrZero(t.totalScans)
      [] f.sortBy = "age" -> OrZero(t.ageHours)
      [] f.sortBy = "creationTime" -> OrZero(t.creationTime)
      [] f.sortBy = "holders" -> OrZero(t.gpHolderCount)
      [] f.sortBy = "liquidity" -> OrZero(t.liq30)
      [] f.sortBy = "safetyScore" -> OrZero(t.safetyScore)

sortKey(t, f) ==
    CASE f.sortBy = "records" -> OrZero(t.totalScans)
      [] f.sortBy = "age" -> OrZero(t.ageHours)
      [] f.sortBy = "creationTime" -> OrZero(t.creationTime)
      [] f.sortBy = "holders" -> OrZero(t.gpHolderCount)
      [] f.sortBy = "liquidity" -> OrZero(t.liq30)
      [] f.sortBy = "safetyScore" ->
             IF t.isHoneypot THEN 0 ELSE OrZero(t.safetyScore)

(* A comparator that always compares ascending *)
compareTokens_IgnoresDirection(a, b, f) ==
    IF f.sortBy \in SortKeys THEN sortKey(a, f) - sortKey(b, f) ELSE 0

compareTokens(a, b, f) ==
    LET direction == IF f.sortDirection = "asc" THEN 1 ELSE -1
    IN IF f.sortBy \in SortKeys
       THEN direction * (sortKey(a, f) - sortKey(b, f))
       ELSE 0

(* Array.prototype.sort is stable: an element goes behind every element    *)
(* that does not compare greater than it.                                  *)
(* A sort that puts an element in front of the elements it ties with *)
insertSorted_BeforeTies(s, x, f) ==
    LET after == {i \in 1..Len(s) : compareTokens(s[i], x, f) >= 0}
        at == IF after = {} THEN Len(s) + 1
              ELSE CHOOSE i \in after : \A j \in after : i <= j
    IN SubSeq(s, 1, at - 1) \o <<x>> \o SubSeq(s, at, Len(s))

insertSorted(s, x, f) ==
    LET after == {i \in 1..Len(s) : compareTokens(s[i], x, f) > 0}
        at == IF after = {} THEN Len(s) + 1
              ELSE CHOOSE i \in after : \A j \in after : i <= j
    IN SubSeq(s, 1, at - 1) \o <<x>> \o SubSeq(s, at, Len(s))

RECURSIVE arraySort(_, _)
arraySort(s, f) ==
    IF s = << >> THEN << >>
    ELSE insertSorted(arraySort(SubSeq(s, 1, Len(s) - 1), f), s[Len(s)], f)

sortTokens(tokensToSort, f) == arraySort(tokensToSort, f)

(* The effect: filter, then sort, then setFilteredTokens *)
filterSortEffect(tokensIn, f) == sortTokens(filterTokens(tokensIn, f), f)

----------------------------------------------------------------------------
(* Initial state: the component constructed, its first effect not yet run *)

(* The list and the card before anything is passed to them *)
ViewIdle ==
    /\ tokensProp = << >>
    /\ filters = DefaultFilters
    /\ filteredTokens = << >>
    /\ listEffectDone = FALSE

AppInit ==
    /\ sockets = << >>
    /\ wsRef = 0
    /\ isReconnecting = FALSE
    /\ reconnectTimeoutRef = NoTimer
    /\ heartbeatIntervalRef = NoTimer
    /\ heartbeatTimeoutRef = NoTimer
    /\ sinceResponse = 0
    /\ retryCount = 0
    /\ rendered = 0
    /\ error = NoError
    /\ isConnected = FALSE
    /\ tokens = 0
    /\ loading = TRUE
    /\ initialLoadDone = FALSE
    /\ inflight = 0
    /\ phase = "init"
    /\ pending = {}
    /\ arrived = << >>

Init ==
    /\ AppInit
    /\ ViewIdle
    /\ token = BaseToken
    /\ card = NoCard

Ids == 1..Len(sockets)

CanCreate == Len(sockets) < MaxSockets
CanFetch == inflight < MaxInflight

(* A render whose retryCount differs from the one the effect last ran with *)
(* is pending: React re-runs the effect before time advances.              *)
CommitPending == phase = "mounted" /\ retryCount # rendered

----------------------------------------------------------------------------
(* Actions *)

(* First commit: the initial-setup effect runs. *)
Mount ==
    /\ phase = "init"
    /\ Becomes(setupEffect([State EXCEPT !.phase = "mounted"], retryCount))

(* retryCount changed: connectWebSocket is a new callback, the effect's    *)
(* cleanup runs and the effect runs again.                                 *)
Commit ==
    /\ CommitPending
    /\ CanCreate /\ CanFetch
    /\ Becomes(setupEffect(cleanup(State), retryCount))

(* The component unmounts: the effect's cleanup runs and React discards the *)
(* component's state; the refs, sockets and timers live on.                *)
discardState(st) ==
    [st EXCEPT !.phase = "unmounted", !.retryCount = 0, !.rendered = 0,
               !.error = NoError, !.isConnected = FALSE, !.tokens = 0,
               !.loading = FALSE]

Unmount ==
    /\ phase = "mounted"
    /\ Becomes(discardState(cleanup(State)))

SocketOpen(ws) ==
    /\ sockets[ws].readyState = "CONNECTING"
    /\ Becomes(onopen([State EXCEPT !.sockets[ws].readyState = "OPEN",
                                    !.sockets[ws].idle = 0], ws))

SocketMessage(ws, kind) ==
    /\ sockets[ws].readyState = "OPEN"
    /\ kind = "NEW_TOKEN" => CanFetch
    /\ Becomes(onmessage([State EXCEPT !.sockets[ws].idle = 0], ws, kind))

SocketError(ws) ==
    /\ sockets[ws].readyState \in {"CONNECTING", "OPEN"}
    /\ Becomes(onerror(State, ws))

SocketClose(ws) ==
    /\ sockets[ws].readyState \in {"OPEN", "CLOSING"}
    /\ Becomes(onclose([State EXCEPT !.sockets[ws] = ClosedSocket],
                       sockets[ws].rc))

HeartbeatIntervalFire ==
    /\ heartbeatIntervalRef.on /\ heartbeatIntervalRef.left = 0
    /\ Becomes(sendHeartbeat(
                 [State EXCEPT !.heartbeatIntervalRef.left = HEARTBEAT_INTERVAL],
                 heartbeatIntervalRef.ws))

HeartbeatTimeoutFire ==
    /\ heartbeatTimeoutRef.on /\ heartbeatTimeoutRef.left = 0
    /\ Becomes(heartbeatTimeoutCallback(State))

ReconnectTimerFire ==
    /\ reconnectTimeoutRef.on /\ reconnectTimeoutRef.left = 0
    /\ CanCreate
    /\ Becomes(reconnectCallback(State))

ReconnectClick ==
    /\ phase = "mounted"
    /\ CanCreate
    /\ Becomes(handleReconnectClick(State, rendered))

RefreshClick ==
    /\ phase = "mounted"
    /\ CanFetch
    /\ Becomes(fetchTokens(State))

FetchComplete(res, payload) ==
    /\ inflight > 0
    /\ Becomes(fetchTokensDone(State, res, payload))

TimerDue(t) == t.on /\ t.left = 0

Elapse(t) == IF t.on THEN [t EXCEPT !.left = @ - TICK] ELSE t

(* The open socket created last: the one whose silence is measured (idle   *)
(* is the time since it opened or last received a message).                *)
OpenIds == {i \in Ids : sockets[i].readyState = "OPEN"}

Watched == IF OpenIds = {} THEN 0 ELSE CHOOSE i \in OpenIds : \A j \in OpenIds : j <= i

Tick ==
    /\ phase # "init"
    /\ ~CommitPending
    /\ ~TimerDue(reconnectTimeoutRef)
    /\ ~TimerDue(heartbeatIntervalRef)
    /\ ~TimerDue(heartbeatTimeoutRef)
    /\ reconnectTimeoutRef' = Elapse(reconnectTimeoutRef)
    /\ heartbeatIntervalRef' = Elapse(heartbeatIntervalRef)
    /\ heartbeatTimeoutRef' = Elapse(heartbeatTimeoutRef)
    /\ sinceResponse' = Min(sinceResponse + TICK, ResponseCap)
    /\ sockets' = [i \in Ids |->
                     IF i = Watched
                     THEN [sockets[i] EXCEPT !.idle = Min(@ + TICK, IdleCap)]
                     ELSE [sockets[i] EXCEPT !.idle = 0]]
    /\ UNCHANGED <<wsRef, isReconnecting, retryCount, rendered, error,
                   isConnected, tokens, loading, initialLoadDone, inflight,
                   phase>>
    /\ UNCHANGED <<viewVars, refreshVars>>

OpenEvent == \E ws \in Ids : SocketOpen(ws)

MessageEvent == \E ws \in Ids, kind \in MessageKinds : SocketMessage(ws, kind)

ErrorEvent == \E ws \in Ids : SocketError(ws)

CloseEvent == \E ws \in Ids : SocketClose(ws)

FetchResponse ==
    \E res \in FetchResults, payload \in 1..MaxPayload :
        FetchComplete(res, payload)

Next ==
    \/ Mount
    \/ Commit
    \/ Unmount
    \/ OpenEvent
    \/ MessageEvent
    \/ ErrorEvent
    \/ CloseEvent
    \/ HeartbeatIntervalFire
    \/ HeartbeatTimeoutFire
    \/ ReconnectTimerFire
    \/ ReconnectClick
    \/ RefreshClick
    \/ FetchResponse
    \/ Tick

Spec == Init /\ [][Next]_vars

----------------------------------------------------------------------------
(* Derived notions used by the properties *)

Live(ws) == sockets[ws].readyState \in {"CONNECTING", "OPEN"}

LiveSockets == {ws \in Ids : Live(ws)}

Closed(ws) == sockets[ws].readyState = "CLOSED"

Mounted == phase = "mounted"

----------------------------------------------------------------------------
(* C1: in every reachable state at most one socket is CONNECTING or OPEN. *)
C1_AtMostOneLiveSocket == Cardinality(LiveSockets) <= 1

(* The manager is at rest: mounted, at least one socket was created, none  *)
(* is connecting, open or awaiting its close event, no reconnect timer is  *)
(* pending and no effect re-run is pending.                                *)
AtRest ==
    /\ Mounted
    /\ Len(sockets) > 0
    /\ \A ws \in Ids : Closed(ws)
    /\ ~reconnectTimeoutRef.on
    /\ ~CommitPending

(* C2: every failure path ends in a retry schedule or a surfaced error:    *)
(* the manager never rests with no live socket, no pending reconnect timer *)
(* and no surfaced error.                                                  *)
C2_FailureEndsInRetryOrError == AtRest => error # NoError

C4_ManualReconnectAttemptsImmediately ==
    (Mounted /\ LiveSockets = {} /\ CanCreate) =>
        LET st == handleReconnectClick(State, rendered)
        IN /\ st.retryCount = 0
           /\ Len(st.sockets) = Len(sockets) + 1
           /\ st.sockets[Len(st.sockets)].readyState = "CONNECTING"

(* C5: while the client is mounted an open connection is never silent for  *)
(* longer than HEARTBEAT_INTERVAL + HEARTBEAT_TIMEOUT: the heartbeat has   *)
(* force-closed it by then, and it closes any socket at most once.         *)
C5_HeartbeatClosesSilentConnection ==
    Mounted =>
        \A ws \in Ids :
            /\ sockets[ws].readyState = "OPEN" =>
                  sockets[ws].idle <= HEARTBEAT_INTERVAL + HEARTBEAT_TIMEOUT
            /\ sockets[ws].hbCloses <= 1

(* C6: connect() is a no-op when an attempt is already in flight or the    *)
(* current socket is Open: no socket is created or closed, and the timers, *)
(* the retry counter and the reentrancy flag stay as they are.             *)
ConnectBusy == isReconnecting \/ ReadyState(State, wsRef) = "OPEN"

C6_ConnectNoOpWhenBusy ==
    ConnectBusy => \A rc \in 0..MAX_RETRIES : connectWebSocket(State, rc) = State

(* A manual reconnect finds the socket Open with its heartbeat running and *)
(* changes nothing.                                                        *)
C6_Witness ==
    /\ Mounted /\ retryCount = 0
    /\ ReadyState(State, wsRef) = "OPEN"
    /\ heartbeatIntervalRef.on /\ heartbeatTimeoutRef.on
    /\ handleReconnectClick(State, rendered) = State

C8_NothingPendingAfterTeardown ==
    phase = "unmounted" =>
        /\ ~reconnectTimeoutRef.on
        /\ ~heartbeatIntervalRef.on
        /\ ~heartbeatTimeoutRef.on

(* C9: a refresh that fails (non-2xx status or a body without an array     *)
(* tokens) surfaces an error and leaves the token collection, the sockets, *)
(* the timers, the connection state and the retry counter as they were.    *)
FetchFailures == {"http_error", "bad_body"}

C9_FailedRefreshKeepsTokens ==
    (Mounted /\ inflight > 0) =>
        \A res \in FetchFailures, payload \in 1..MaxPayload :
            LET st == fetchTokensDone(State, res, payload)
            IN /\ st.error \in {ErrHttp, ErrFormat}
               /\ st.tokens = tokens
               /\ st.sockets = sockets
               /\ st.wsRef = wsRef
               /\ st.isConnected = isConnected
               /\ st.isReconnecting = isReconnecting
               /\ st.retryCount = retryCount
               /\ st.reconnectTimeoutRef = reconnectTimeoutRef
               /\ st.heartbeatIntervalRef = heartbeatIntervalRef
               /\ st.heartbeatTimeoutRef = heartbeatTimeoutRef

(* A refresh has failed after an earlier one delivered a collection: the   *)
(* error is surfaced, the collection is still there, the socket is open.   *)
C9_Witness ==
    /\ Mounted /\ inflight = 0
    /\ error \in {ErrHttp, ErrFormat}
    /\ tokens # 0
    /\ ReadyState(State, wsRef) = "OPEN" /\ isConnected

(* C10: a NEW_TOKEN message issues exactly one refresh request when it     *)
(* carries a token payload; without one it issues none, surfaces no error  *)
(* and leaves the connection open.                                         *)
C10_NewTokenRefreshesIffPayload ==
    \A ws \in OpenIds :
        LET with == onmessage(State, ws, "NEW_TOKEN")
            without == onmessage(State, ws, "NEW_TOKEN_NO_PAYLOAD")
        IN /\ with.inflight = inflight + 1
           /\ without.inflight = inflight
           /\ without.error = error
           /\ without.sockets = sockets
           /\ without.wsRef = wsRef
           /\ without.isConnected = isConnected

(* A NEW_TOKEN message was just handled on the open socket: the liveness   *)
(* timestamp is fresh and a refresh is in flight after the initial load.   *)
C10_Witness ==
    /\ Mounted /\ initialLoadDone /\ inflight = 1
    /\ ReadyState(State, wsRef) = "OPEN"
    /\ sockets[wsRef].idle = 0 /\ sinceResponse = 0

----------------------------------------------------------------------------
(* The list and the card on their own: the inputs are drawn from bounded   *)
(* sets and the component computes what it shows.                          *)

MaxTokens == 3         \* records in the tokens prop
MaxFilterEdits == 2    \* filter settings changed from their defaults
MaxRiskFlags == 3      \* security flags that differ from the clean record

(* Records the list is fed *)
HoneypotToken ==
    [BaseToken EXCEPT !.isHoneypot = TRUE, !.safetyScore = 90, !.ageHours = 1,
                      !.gpHolderCount = 20, !.liq30 = 3000, !.totalScans = 5,
                      !.creationTime = 300, !.name = <<"b">>,
                      !.symbol = <<"B", "a">>]

WarningToken ==
    [BaseToken EXCEPT !.gpIsMintable = TRUE, !.gpSellTax = 11,
                      !.safetyScore = 40, !.liq30 = 3000, !.totalScans = 20,
                      !.creationTime = 100, !.holdersChanged = FALSE]

BlacklistedToken ==
    [BaseToken EXCEPT !.gpIsBlacklisted = TRUE, !.safetyScore = 10,
                      !.ageHours = 3, !.gpHolderCount = 20,
                      !.liquidityChanged = FALSE, !.name = <<"B", "b">>]

AntiWhaleToken ==
    [BaseToken EXCEPT !.gpIsBlacklisted = TRUE, !.gpIsAntiWhale = TRUE,
                      !.gpAntiWhaleModifiable = TRUE, !.ageHours = 0,
                      !.totalScans = 5, !.safetyScore = 40,
                      !.holdersChanged = FALSE, !.liquidityChanged = FALSE]

SparseToken ==
    [BaseToken EXCEPT !.gpHolderCount = Undefined, !.liq30 = Undefined,
                      !.totalScans = Undefined, !.ageHours = Undefined,
                      !.creationTime = Undefined, !.safetyScore = Undefined,
                      !.gpIsOpenSource = FALSE]

TokenPool == {BaseToken, HoneypotToken, WarningToken, BlacklistedToken,
              AntiWhaleToken, SparseToken}

(* The collections App passes down: every record has its own address *)
TokenLists ==
    UNION {{[i \in 1..n |-> [s[i] EXCEPT !.address = i]] :
              s \in [1..n -> TokenPool]} : n \in 0..MaxTokens}

(* handleFilterChange followed by handleSaveChanges: one setting replaced *)
handleFilterChange(f, key, value) == [f EXCEPT ![key] = value]

FilterToggles == {"hideHoneypots", "showOnlyHoneypots", "hideDanger",
                  "hideWarning", "showOnlySafe", "hideStagnantHolders",
                  "hideStagnantLiquidity"}

EditOnce(f) ==
    {handleFilterChange(f, k, TRUE) : k \in FilterToggles}
      \cup {handleFilterChange(f, "maxRecords", parseIntOr(v, 50)) :
              v \in {-1, 0, 1, 2}}
      \cup {handleFilterChange(f, "minHolders", parseIntOr(v, 0)) :
              v \in {0, 100}}
      \cup {handleFilterChange(f, "minLiquidity", parseIntOr(v, 0)) :
              v \in {0, 5000}}
      \cup {handleFilterChange(f, "stagnantRecordCount", parseIntOr(v, 10)) :
              v \in {0, 5}}
      \cup {handleFilterChange(f, "searchQuery", q) :
              q \in {<<"b">>, <<"A">>}}
      \cup {handleFilterChange(f, "sortBy", k) : k \in SortKeys}
      \cup {handleFilterChange(f, "sortDirection", d) : d \in {"asc", "desc"}}

RECURSIVE EditedFilters(_)
EditedFilters(n) ==
    IF n = 0 THEN {DefaultFilters}
    ELSE LET prev == EditedFilters(n - 1)
         IN prev \cup UNION {EditOnce(f) : f \in prev}

FilterConfigs == EditedFilters(MaxFilterEdits)

(* Records the card is given: the clean record with a few flags changed,   *)
(* every flag false, every flag true, and the clean record over the tiers  *)
(* of the numbers the analysis models read.                                *)
CleanFlags == {k \in RiskFlags : BaseToken[k]}

FlagSets ==
    {(CleanFlags \ d) \cup (d \ CleanFlags) :
       d \in {d \in SUBSET RiskFlags : Cardinality(d) <= MaxRiskFlags}}
      \cup {{}, RiskFlags}

FlagTokens ==
    {[SetFlags(BaseToken, on) EXCEPT !.gpBuyTax = b, !.gpSellTax = s] :
       on \in FlagSets, b \in {10, 11}, s \in {10, 11}}

ScoreTokens ==
    {[BaseToken EXCEPT !.totalScans = ts, !.honeypotFailures = hf,
                       !.liq30 = lq, !.gpHolderCount = hc,
                       !.gpIsOpenSource = os] :
       ts \in {Undefined, 0, 1, 3, 100}, hf \in {Undefined, 0, 1, 3},
       lq \in {Undefined, 0, 1000, 1001, 5001, 10001, 25001, 50000, 50001},
       hc \in {Undefined, 0, 5, 6, 11, 26, 51, 100, 101, 150},
       os \in BOOLEAN}

CardTokens == FlagTokens \cup ScoreTokens

(* TokenEventsList mounted with a tokens prop and a saved filter state *)
ListInit ==
    /\ AppInit
    /\ tokensProp \in TokenLists
    /\ filters \in FilterConfigs
    /\ filteredTokens = << >>
    /\ listEffectDone = FALSE
    /\ token = BaseToken
    /\ card = NoCard

(* The effect on [tokens, filterTokens, sortTokens] *)
ListEffect ==
    /\ ~listEffectDone
    /\ filteredTokens' = filterSortEffect(tokensProp, filters)
    /\ listEffectDone' = TRUE
    /\ UNCHANGED <<appVars, refreshVars, tokensProp, filters, token, card>>

ListNext == ListEffect

SpecList == ListInit /\ [][ListNext]_vars

(* TokenEventCard given a token *)
CardInit ==
    /\ AppInit
    /\ ViewIdle
    /\ token \in CardTokens
    /\ card = NoCard

CardRender ==
    /\ ~card.shown
    /\ card' = TokenEventCard(token)
    /\ UNCHANGED <<appVars, refreshVars, tokensProp, filters,
                   filteredTokens, listEffectDone, token>>

CardNext == CardRender

SpecCard == CardInit /\ [][CardNext]_vars

----------------------------------------------------------------------------
(* Properties of the list *)

(* The records that pass the filter, before the cut to maxRecords *)
Passing == SelectSeq(tokensProp, LAMBDA t : passesFilters(t, filters))

(* out holds records of the tokens prop, each once, in the prop's order    *)
(* (a record's address is its position in the prop).                       *)
IsSubCollection(out) ==
    /\ \A i \in 1..Len(out) :
         /\ out[i].address \in 1..Len(tokensProp)
         /\ tokensProp[out[i].address] = out[i]
    /\ \A i, j \in 1..Len(out) : i < j => out[i].address < out[j].address

(* C11: for every tokens prop and every filter state, what filterTokens    *)
(* returns is a sub-collection of its input (input records, in the input's *)
(* order, none twice) and holds at most maxRecords records.                *)
C11_FilterIsBoundedSubCollection ==
    listEffectDone =>
        /\ IsSubCollection(filterTokens(tokensProp, filters))
        /\ Len(filterTokens(tokensProp, filters)) <= filters.maxRecords

(* C12: when more than maxRecords records pass the filter, the list shown  *)
(* is the first maxRecords records of all passing records sorted by the    *)
(* configured key and direction.                                           *)
C12_TruncationAfterSorting ==
    (listEffectDone /\ filters.maxRecords >= 0
       /\ Len(Passing) > filters.maxRecords)
    => filteredTokens = slice(sortTokens(Passing, filters), filters.maxRecords)

(* C13: every record is in exactly one of the classes danger, warning and *)
(* safe: dangerous excludes warning, safe excludes both, and the card's    *)
(* level is the class.                                                     *)
C13_ClassificationIsPartition ==
    card.shown =>
        /\ Cardinality({c \in {"danger", "warning", "safe"} :
                          \/ c = "danger" /\ isDangerous(token)
                          \/ c = "warning" /\ hasWarnings(token)
                          \/ c = "safe" /\ isSafe(token)}) = 1
        /\ isDangerous(token) => ~hasWarnings(token)
        /\ isSafe(token) => ~isDangerous(token) /\ ~hasWarnings(token)
        /\ card.securityLevel \in {"danger", "warning", "safe"}
        /\ card.securityLevel = "danger" <=> isDangerous(token)
        /\ card.securityLevel = "warning" <=> hasWarnings(token)

(* A dangerous record that also carries a warning flag has been classified *)
C13_Witness ==
    /\ card.shown
    /\ token.gpIsBlacklisted /\ ~token.gpIsAntiWhale /\ ~token.isHoneypot
    /\ token.gpIsMintable /\ token.gpSellTax > 10
    /\ card.securityLevel = "danger"

(* The records the sort was given *)
SortInput == filterTokens(tokensProp, filters)

C17_HoneypotSortsAsZero ==
    (listEffectDone /\ filters.sortBy = "safetyScore") =>
        \A i, j \in 1..Len(filteredTokens) :
            (/\ i < j
             /\ filteredTokens[IF filters.sortDirection = "asc" THEN i ELSE j].safetyScore > 0
             /\ ~filteredTokens[IF filters.sortDirection = "asc" THEN i ELSE j].isHoneypot)
            => ~filteredTokens[IF filters.sortDirection = "asc" THEN j ELSE i].isHoneypot

(* A honeypot storing a higher score than a record that is no honeypot has *)
(* been sorted with it, descending                                         *)
C17_Witness ==
    /\ listEffectDone
    /\ filters.sortBy = "safetyScore" /\ filters.sortDirection = "desc"
    /\ \E i, j \in 1..Len(filteredTokens) :
         /\ filteredTokens[i].isHoneypot /\ ~filteredTokens[j].isHoneypot
         /\ filteredTokens[i].safetyScore > filteredTokens[j].safetyScore
         /\ filteredTokens[j].safetyScore > 0
         /\ filteredTokens[i].address < filteredTokens[j].address

(* C18: with hideHoneypots and showOnlyHoneypots both set, filterTokens    *)
(* returns the empty collection for every input.                           *)
C18_BothHoneypotFiltersGiveEmpty ==
    (filters.hideHoneypots /\ filters.showOnlyHoneypots) =>
        /\ filterTokens(tokensProp, filters) = << >>
        /\ listEffectDone => filteredTokens = << >>

(* Both settings on, honeypots and other records in the input *)
C18_Witness ==
    /\ listEffectDone
    /\ filters.hideHoneypots /\ filters.showOnlyHoneypots
    /\ \E i, j \in 1..Len(tokensProp) :
         tokensProp[i].isHoneypot /\ ~tokensProp[j].isHoneypot
    /\ filteredTokens = << >>

----------------------------------------------------------------------------
(* Properties of the card's analysis models *)

(* Counts and amounts all present and not negative *)
WellFormed(t) ==
    /\ t.totalScans >= 0 /\ t.honeypotFailures >= 0
    /\ t.liq30 >= 0 /\ t.gpHolderCount >= 0

(* The weighted sum of the four sub-scores the card shows, over            *)
(* 100 * marketScore.den                                                   *)
WeightedSum(c) ==
    15 * c.marketScore.num
      + c.marketScore.den * (40 * c.securityScore + 25 * c.liquidityScore
                             + 20 * c.growthScore)

(* C15: for every well-formed record the combined score is                 *)
(* 0.15 * Market + 0.40 * Security + 0.25 * Liquidity + 0.20 * Growth of   *)
(* the four sub-scores and lies in [0, 100].                               *)
C15_CompositeIsWeightedSumInRange ==
    (card.shown /\ WellFormed(token)) =>
        /\ card.totalScore.num = WeightedSum(card)
        /\ card.totalScore.den = 100 * card.marketScore.den
        /\ 0 <= card.totalScore.num
        /\ card.totalScore.num <= 100 * card.totalScore.den

(* The record of the scenario *)
MarketScenario(t) ==
    /\ t.totalScans = 100 /\ t.honeypotFailures = 0
    /\ t.buyGas = 50000 /\ t.sellGas = 50000
    /\ t.gpHolderCount = 150 /\ t.gpBuyTax = 5 /\ t.gpSellTax = 5

(* C16: the Market Behavior sub-score adds the scan-success term, the      *)
(* gas-symmetry bonus, the holder tier and the tax-symmetry tier: the      *)
(* record of the scenario scores 100.                                      *)
C16_MarketScenarioScores100 ==
    (card.shown /\ MarketScenario(token)) =>
        card.marketScore.num = 100 * card.marketScore.den

----------------------------------------------------------------------------
(* Properties of the open and close handlers *)

(* The state the open event of socket ws leaves behind *)
AfterOpen(ws) == onopen([State EXCEPT !.sockets[ws].readyState = "OPEN"], ws)

(* The state the close event of socket ws leaves behind *)
AfterClose(ws) ==
    onclose([State EXCEPT !.sockets[ws] = ClosedSocket], sockets[ws].rc)

(* C19: after a socket's open event is handled the retry counter is 0, no  *)
(* error is shown, the reconnecting flag is clear, the connection is       *)
(* marked connected and the heartbeat runs for that socket: the interval   *)
(* timer is armed and a first PING has been sent.                          *)
C19_OpenResetsAndStartsHeartbeat ==
    Mounted =>
      \A ws \in Ids :
        sockets[ws].readyState = "CONNECTING" =>
          /\ AfterOpen(ws).retryCount = 0
          /\ AfterOpen(ws).error = NoError
          /\ ~AfterOpen(ws).isReconnecting
          /\ AfterOpen(ws).isConnected
          /\ AfterOpen(ws).heartbeatIntervalRef
               = [on |-> TRUE, left |-> HEARTBEAT_INTERVAL, ws |-> ws, rc |-> 0]
          /\ AfterOpen(ws).sockets[ws].pinged
          /\ AfterOpen(ws).heartbeatTimeoutRef
               = [on |-> TRUE, left |-> HEARTBEAT_TIMEOUT, ws |-> ws, rc |-> 0]

(* A socket created for a retry has just opened: the retry counter is     *)
(* back at 0 (the render that follows is still pending) and the heartbeat  *)
(* has started for that socket                                             *)
C19_Witness ==
    /\ Mounted
    /\ retryCount = 0 /\ rendered = 1
    /\ error = NoError /\ isConnected /\ ~isReconnecting
    /\ \E ws \in Ids :
         /\ sockets[ws].readyState = "OPEN" /\ sockets[ws].rc = 1
         /\ sockets[ws].pinged
         /\ heartbeatIntervalRef
              = [on |-> TRUE, left |-> HEARTBEAT_INTERVAL, ws |-> ws, rc |-> 0]
         /\ heartbeatTimeoutRef
              = [on |-> TRUE, left |-> HEARTBEAT_TIMEOUT, ws |-> ws, rc |-> 0]

(* C20: a close event handled with retry count below MAX_RETRIES and no    *)
(* reconnect scheduled stops the heartbeat, clears the socket reference    *)
(* and arms the reconnect timer with RETRY_INTERVAL, and no close event    *)
(* changes the retry count; the reconnect timer's firing raises the retry  *)
(* count by one and makes the attempt.                                     *)
C20_CloseSchedulesOneRetry ==
    Mounted =>
      /\ \A ws \in Ids :
           sockets[ws].readyState \in {"OPEN", "CLOSING"} =>
             /\ AfterClose(ws).retryCount = retryCount
             /\ (sockets[ws].rc < MAX_RETRIES /\ ~reconnectTimeoutRef.on) =>
                  /\ ~AfterClose(ws).heartbeatIntervalRef.on
                  /\ ~AfterClose(ws).heartbeatTimeoutRef.on
                  /\ AfterClose(ws).wsRef = 0
                  /\ AfterClose(ws).reconnectTimeoutRef.on
                  /\ AfterClose(ws).reconnectTimeoutRef.left = RETRY_INTERVAL
      /\ reconnectTimeoutRef.on =>
           /\ reconnectCallback(State).retryCount = retryCount + 1
           /\ Len(reconnectCallback(State).sockets) = Len(sockets) + 1

----------------------------------------------------------------------------
(* Properties of the message handler and the heartbeat timeout *)

(* The message kinds whose payload parses *)
WellFormedKinds == MessageKinds \ {"MALFORMED"}

(* C21: any well-formed message received on an open socket (PONG,          *)
(* NEW_TOKEN, CONNECTED or an unknown type) sets the last-seen time to now *)
(* and cancels the pending heartbeat timeout timer.                        *)
C21_AnyMessageResetsLiveness ==
    \A ws \in Ids :
      sockets[ws].readyState = "OPEN" =>
        \A kind \in WellFormedKinds :
          /\ onmessage(State, ws, kind).sinceResponse = 0
          /\ ~onmessage(State, ws, kind).heartbeatTimeoutRef.on

(* The state the due heartbeat timeout leaves behind *)
AfterHeartbeatTimeout == heartbeatTimeoutCallback(State)

(* C22: when the heartbeat timeout timer fires, its socket is force-closed *)
(* if and only if more than HEARTBEAT_TIMEOUT has passed since the last    *)
(* message; every message that parses sets that time to 0, so a socket     *)
(* that received one within the last HEARTBEAT_TIMEOUT is left open.       *)
C22_TimeoutClosesIffSilent ==
    /\ TimerDue(heartbeatTimeoutRef) =>
         LET ws == heartbeatTimeoutRef.ws
         IN /\ sinceResponse > HEARTBEAT_TIMEOUT =>
                 /\ AfterHeartbeatTimeout.sockets[ws].hbCloses
                      = Min(sockets[ws].hbCloses + 1, 2)
                 /\ AfterHeartbeatTimeout.sockets[ws].readyState # "OPEN"
            /\ sinceResponse <= HEARTBEAT_TIMEOUT =>
                 AfterHeartbeatTimeout.sockets = sockets
    /\ \A ws \in Ids :
         sockets[ws].readyState = "OPEN" =>
           \A kind \in WellFormedKinds :
             LET got == onmessage(State, ws, kind)
             IN got.heartbeatTimeoutRef.on =>
                  heartbeatTimeoutCallback(
                     [got EXCEPT !.heartbeatTimeoutRef.left = 0,
                                 !.sinceResponse = HEARTBEAT_TIMEOUT]).sockets
                    = got.sockets

(* The timeout is due on an open socket, once after silence and once after *)
(* a message that was no PONG                                              *)
C22_Witness ==
    /\ TimerDue(heartbeatTimeoutRef)
    /\ sockets[heartbeatTimeoutRef.ws].readyState = "OPEN"
    /\ sinceResponse > HEARTBEAT_TIMEOUT

C22_WitnessKeptOpen ==
    /\ TimerDue(heartbeatTimeoutRef)
    /\ sockets[heartbeatTimeoutRef.ws].readyState = "OPEN"
    /\ sinceResponse = HEARTBEAT_TIMEOUT

(* Some heartbeat timer (interval or timeout) is pending *)
HeartbeatPending == heartbeatIntervalRef.on \/ heartbeatTimeoutRef.on

(* C23: the heartbeat timers and the reconnect-delay timer are mutually    *)
(* exclusive: while the reconnect timer is pending no heartbeat timer is   *)
(* pending, and a heartbeat timer is pending only while a socket is OPEN.  *)
C23_HeartbeatXorReconnectTimer ==
    /\ reconnectTimeoutRef.on => ~HeartbeatPending
    /\ HeartbeatPending => \E ws \in Ids : sockets[ws].readyState = "OPEN"

(* C24: a message whose payload fails JSON parsing is dropped: no socket   *)
(* is closed, no refresh is started, and the last-seen time and the        *)
(* pending heartbeat timeout stay exactly as they were.                    *)
C24_MalformedMessageDropped ==
    \A ws \in Ids :
      sockets[ws].readyState = "OPEN" =>
        LET got == onmessage(State, ws, "MALFORMED")
        IN /\ got.sockets = sockets
           /\ got.inflight = inflight
           /\ got.sinceResponse = sinceResponse
           /\ got.heartbeatTimeoutRef = heartbeatTimeoutRef
           /\ got = State

(* An open socket with the heartbeat timeout pending and time elapsed      *)
(* since the last message                                                  *)
C24_Witness ==
    /\ heartbeatTimeoutRef.on
    /\ sockets[heartbeatTimeoutRef.ws].readyState = "OPEN"
    /\ sinceResponse > 0
    /\ inflight = 0

----------------------------------------------------------------------------
(* Concurrent refreshes.  SpecRefresh tells the fetch requests apart: each *)
(* call of fetchTokens gets the next number, a response settles any one of *)
(* the requests in flight, and the responses are logged as they arrive.    *)

MaxRefreshes == 3        \* fetch requests issued in one behaviour
MaxRefreshPayload == 2   \* distinct token collections the API returns

Issued == Cardinality(pending) + Len(arrived)

CanRefresh == Issued < MaxRefreshes

(* A handler's result, its new fetch requests entering the log *)
Issue(st) ==
    /\ BecomesApp(st)
    /\ pending' = pending \cup (Issued + 1 .. Issued + (st.inflight - inflight))
    /\ arrived' = arrived

RefreshMount ==
    /\ phase = "init"
    /\ Issue(setupEffect([State EXCEPT !.phase = "mounted"], retryCount))

RefreshMessage ==
    \E ws \in Ids, kind \in MessageKinds :
        /\ sockets[ws].readyState = "OPEN"
        /\ kind = "NEW_TOKEN" => CanRefresh
        /\ Issue(onmessage(State, ws, kind))

handleRefreshTokens(st) == fetchTokens(st)

RefreshTokensClick ==
    /\ phase = "mounted"
    /\ CanRefresh
    /\ Issue(handleRefreshTokens(State))

RefreshResponse ==
    \E req \in pending, res \in FetchResults, payload \in 1..MaxRefreshPayload :
        /\ BecomesApp(fetchTokensDone(State, res, payload))
        /\ pending' = pending \ {req}
        /\ arrived' = Append(arrived, [req |-> req, res |-> res,
                                       payload |-> payload])

RefreshNext ==
    \/ RefreshMount
    \/ OpenEvent
    \/ RefreshMessage
    \/ RefreshTokensClick
    \/ RefreshResponse

SpecRefresh == Init /\ [][RefreshNext]_vars

(* The successful responses, by position of arrival *)
Successes == {i \in 1..Len(arrived) : arrived[i].res = "ok"}

LastSuccess == CHOOSE i \in Successes : \A j \in Successes : j <= i

(* C25: with refreshes in flight at once, each successful response         *)
(* replaces the whole collection, so the collection is the payload of the  *)
(* successful response that arrived last, whatever the order in which the  *)
(* requests were issued; a failed response leaves the collection as it is. *)
C25_LastResponseWins ==
    /\ inflight = Cardinality(pending)
    /\ tokens = IF Successes = {} THEN 0 ELSE arrived[LastSuccess].payload

(* All of three refreshes have completed; two succeeded with different     *)
(* payloads, the later-issued one arriving first, and a failure came last  *)
C25_Witness ==
    /\ pending = {}
    /\ Len(arrived) = 3
    /\ arrived[1].res = "ok" /\ arrived[2].res = "ok"
    /\ arrived[1].req > arrived[2].req
    /\ arrived[1].payload # arrived[2].payload
    /\ arrived[3].res # "ok"
    /\ tokens = arrived[2].payload

----------------------------------------------------------------------------
(* Who writes the token collection and the filter configuration *)

(* The step is the completion of a refresh whose response was accepted *)
SuccessfulRefresh ==
    /\ inflight > 0
    /\ \E payload \in 1..MaxPayload :
         State' = fetchTokensDone(State, "ok", payload)

(* C26: while the component is mounted the token collection changes only   *)
(* in the completion of a successful refresh (connect, open, message,      *)
(* error, close, heartbeat and reconnect-timer steps and failed refreshes  *)
(* leave it alone), and no step of the connection manager changes the      *)
(* filter configuration.                                                   *)
C26_OnlyRefreshWritesTokens ==
    [][/\ (tokens' # tokens /\ phase' = "mounted") => SuccessfulRefresh
       /\ filters' = filters]_vars

(* A loaded collection has survived a connection loss: the reconnect timer *)
(* is pending and a refresh is in flight                                   *)
C26_Witness ==
    /\ Mounted
    /\ tokens # 0
    /\ reconnectTimeoutRef.on
    /\ inflight > 0
    /\ \E ws \in Ids : Closed(ws)

----------------------------------------------------------------------------
(* The security-level and stagnation predicates of the filter *)

(* The filter state with the three security-level toggles off *)
LevelTogglesOff ==
    [filters EXCEPT !.hideDanger = FALSE, !.hideWarning = FALSE,
                    !.showOnlySafe = FALSE]

(* The record fails a security-level toggle that is on *)
FailsLevelToggle(t) ==
    \/ filters.hideDanger /\ isDangerous(t)
    \/ filters.hideWarning /\ hasWarnings(t)
    \/ filters.showOnlySafe /\ ~isSafe(t)

(* C27: the three security-level toggles act independently and             *)
(* conjunctively: with hideDanger on no dangerous record is shown, with    *)
(* hideWarning on no warning record is shown, with showOnlySafe on every   *)
(* record shown is safe, and a record passing every other predicate is     *)
(* excluded exactly when it fails a toggle that is on.                     *)
C27_LevelTogglesConjunctive ==
    listEffectDone =>
      /\ \A i \in 1..Len(filteredTokens) :
           /\ filters.hideDanger => ~isDangerous(filteredTokens[i])
           /\ filters.hideWarning => ~hasWarnings(filteredTokens[i])
           /\ filters.showOnlySafe => isSafe(filteredTokens[i])
      /\ \A i \in 1..Len(tokensProp) :
           passesFilters(tokensProp[i], LevelTogglesOff) =>
             (passesFilters(tokensProp[i], filters)
                <=> ~FailsLevelToggle(tokensProp[i]))

(* Danger and warning hidden together, a record of each class given, and   *)
(* the safe one shown                                                      *)
C27_Witness ==
    /\ listEffectDone
    /\ filters.hideDanger /\ filters.hideWarning
    /\ \E i, j \in 1..Len(tokensProp) :
         isDangerous(tokensProp[i]) /\ hasWarnings(tokensProp[j])
    /\ Len(filteredTokens) = 1
    /\ isSafe(filteredTokens[1])

(* The filter state with the two stagnation toggles off *)
StagnationTogglesOff ==
    [filters EXCEPT !.hideStagnantHolders = FALSE,
                    !.hideStagnantLiquidity = FALSE]

(* The record has been scanned often enough and a stagnation toggle that   *)
(* is on finds its flag false                                              *)
Stagnant(t) ==
    /\ OrZero(t.totalScans) >= filters.stagnantRecordCount
    /\ \/ filters.hideStagnantHolders /\ ~t.holdersChanged
       \/ filters.hideStagnantLiquidity /\ ~t.liquidityChanged

(* C28: stagnation excludes a record only when totalScans >=               *)
(* stagnantRecordCount; then it is excluded if hideStagnantHolders is on   *)
(* and holdersChanged is false, or if hideStagnantLiquidity is on and      *)
(* liquidityChanged is false, each check on its own; a record with fewer   *)
(* scans is never excluded for stagnation.                                 *)
C28_StagnationPredicate ==
    listEffectDone =>
      /\ \A i \in 1..Len(tokensProp) :
           passesFilters(tokensProp[i], StagnationTogglesOff) =>
             (passesFilters(tokensProp[i], filters)
                <=> ~Stagnant(tokensProp[i]))
      /\ \A i \in 1..Len(filteredTokens) :
           OrZero(filteredTokens[i].totalScans) >= filters.stagnantRecordCount
             => /\ filters.hideStagnantHolders
                     => filteredTokens[i].holdersChanged
                /\ filters.hideStagnantLiquidity
                     => filteredTokens[i].liquidityChanged

(* With holder stagnation hidden, of two records whose holders did not     *)
(* change the one scanned often enough is dropped and the other is shown   *)
C28_Witness ==
    /\ listEffectDone
    /\ filters.hideStagnantHolders /\ ~filters.hideStagnantLiquidity
    /\ \E i \in 1..Len(tokensProp) :
         /\ ~tokensProp[i].holdersChanged /\ tokensProp[i].liquidityChanged
         /\ OrZero(tokensProp[i].totalScans) >= filters.stagnantRecordCount
         /\ \A j \in 1..Len(filteredTokens) : filteredTokens[j] # tokensProp[i]
    /\ \E j \in 1..Len(filteredTokens) :
         /\ ~filteredTokens[j].holdersChanged
         /\ OrZero(filteredTokens[j].totalScans) < filters.stagnantRecordCount

(* The class the filter computes for a record *)
FilterClass(t) ==
    CASE isDangerous(t) -> "danger"
      [] hasWarnings(t) -> "warning"
      [] isSafe(t) -> "safe"

(* C29: the class the filter computes for a record is the class the card   *)
(* shows for it, for every combination of flags and tax values.            *)
C29_FilterAndCardAgree ==
    card.shown => card.securityLevel = FilterClass(token)

(* A record whose only reason for a warning is a sell tax above 10, its    *)
(* buy tax being exactly 10                                                *)
C29_Witness ==
    /\ card.shown
    /\ token.gpBuyTax = 10 /\ token.gpSellTax = 11
    /\ getWarningReasons(token) = {"sell tax"}
    /\ card.securityLevel = "warning"
    /\ FilterClass(token) = "warning"

(* A record with nothing but a buy tax of exactly 10 is safe for both *)
C29_WitnessBoundary ==
    /\ card.shown
    /\ token.gpBuyTax = 10 /\ token.gpSellTax = 10
    /\ getWarningReasons(token) = {}
    /\ card.securityLevel = "safe"

(* The conditions of the contract-security sub-score that a record meets *)
SecurityConditionsMet(t) ==
    {c \in {"open source", "owner", "not mintable", "no external calls"} :
        CASE c = "open source" -> t.gpIsOpenSource
          [] c = "owner" -> ~t.gpHiddenOwner /\ ~t.gpCanTakeBackOwnership
          [] c = "not mintable" -> ~t.gpIsMintable
          [] c = "no external calls" -> ~t.gpExternalCall}

(* C30: the contract-security sub-score is 25 for each condition met       *)
(* among: open source; neither hidden owner nor ownership take-back; not   *)
(* mintable; no external calls.  It is 100 with all four and 0 with none.  *)
C30_SecurityScoreCountsConditions ==
    card.shown =>
      card.securityScore = 25 * Cardinality(SecurityConditionsMet(token))

----------------------------------------------------------------------------
(* The order sortTokens produces *)

(* The numeric field a sort key names, a missing value read as 0 *)
KeyField(t) ==
    CASE filters.sortBy = "records" -> OrZero(t.totalScans)
      [] filters.sortBy = "age" -> OrZero(t.ageHours)
      [] filters.sortBy = "creationTime" -> OrZero(t.creationTime)
      [] filters.sortBy = "holders" -> OrZero(t.gpHolderCount)
      [] filters.sortBy = "liquidity" -> OrZero(t.liq30)
      [] filters.sortBy = "safetyScore" -> OrZero(t.safetyScore)

(* out holds the records of in, each as often as in does *)
IsPermutation(out, in) ==
    /\ Len(out) = Len(in)
    /\ \A i \in 1..Len(in) :
         Cardinality({j \in 1..Len(out) : out[j] = in[i]})
           = Cardinality({j \in 1..Len(in) : in[j] = in[i]})

(* Adjacent records of s are ordered by key in the configured direction *)
AdjacentOrdered(s, key(_)) ==
    \A i \in 1..(Len(s) - 1) :
        IF filters.sortDirection = "asc"
        THEN key(s[i]) <= key(s[i + 1])
        ELSE key(s[i]) >= key(s[i + 1])

EffectiveKey(t) == sortKey(t, filters)

----------------------------------------------------------------------------
(* Absent fields *)

NumericFields ==
    {"gpHolderCount", "liq30", "totalScans", "honeypotFailures", "ageHours",
     "creationTime", "safetyScore", "gpBuyTax", "gpSellTax", "buyGas",
     "sellGas"}

(* The record with every absent numeric field set to 0 *)
Defaulted(t) ==
    [k \in DOMAIN t |->
       IF k \in NumericFields /\ t[k] = Undefined THEN 0 ELSE t[k]]

SameFraction(p, q) == p.num * q.den = q.num * p.den

(* C32: no consumer tells an absent field from its default: the card's     *)
(* level and each of its sub-scores computed for a record with absent      *)
(* fields equal those computed with the fields set to 0.                   *)
C32_AbsentEqualsDefault ==
    card.shown =>
      LET dflt == TokenEventCard(Defaulted(token))
      IN /\ dflt.securityLevel = card.securityLevel
         /\ dflt.securityScore = card.securityScore
         /\ dflt.liquidityScore = card.liquidityScore
         /\ dflt.growthScore = card.growthScore
         /\ SameFraction(dflt.marketScore, card.marketScore)

----------------------------------------------------------------------------
(* The retry counter, the socket reference and the reconnecting flag *)

C34_OpenSocketHasHeartbeat ==
    Mounted =>
      \A ws \in Ids :
        sockets[ws].readyState = "OPEN" =>
          heartbeatIntervalRef.on /\ heartbeatIntervalRef.ws = ws

(* C35: while the component is mounted, wsRef points to every socket that  *)
(* is CONNECTING or OPEN, and it is null only when there is no such        *)
(* socket; the close event of a replaced socket does not clear the         *)
(* reference to its replacement.                                           *)
C35_RefPointsToLiveSocket ==
    Mounted =>
      /\ \A ws \in Ids : Live(ws) => wsRef = ws
      /\ wsRef = 0 => LiveSockets = {}

(* The state after the re-render that a change of retryCount causes *)
AfterCommit == setupEffect(cleanup(State), retryCount)

(* C36: a change of the retry counter by itself neither closes a socket    *)
(* nor opens one: the re-render after the counter was reset by an open     *)
(* leaves that socket the current open connection, and the re-render after *)
(* the reconnect timer's increment adds no socket to the one the timer's   *)
(* callback created.                                                       *)
C36_RetryCountChangeKeepsSockets ==
    CommitPending =>
      /\ AfterCommit.sockets = sockets
      /\ AfterCommit.wsRef = wsRef

(* The step is the open event of a socket *)
SocketOpens ==
    \E ws \in Ids :
        /\ sockets[ws].readyState = "CONNECTING"
        /\ sockets'[ws].readyState = "OPEN"

(* C37: a successful refresh replaces the token collection and leaves the  *)
(* surfaced error as it is; while the component is mounted a surfaced      *)
(* error is withdrawn only by the open event of a socket.                  *)
C37_RefreshKeepsError ==
    [][/\ SuccessfulRefresh => error' = error
       /\ (error # NoError /\ error' = NoError /\ phase' = "mounted")
            => SocketOpens]_vars

(* A failed refresh has surfaced an error, the collection is loaded from   *)
(* a successful one, and a further refresh is in flight                    *)
C37_Witness ==
    /\ Mounted
    /\ error \in {ErrHttp, ErrFormat}
    /\ tokens # 0
    /\ inflight > 0

(* The error of a failed refresh is still surfaced after a later           *)
(* successful refresh: the initial load is done, nothing is in flight      *)
C37_WitnessAfterSuccess ==
    /\ Mounted
    /\ error \in {ErrHttp, ErrFormat}
    /\ tokens # 0
    /\ inflight = 0
    /\ \A ws \in Ids : sockets[ws].readyState = "CONNECTING"

(* A connection attempt is in flight or a reconnect is scheduled *)
AttemptUnderWay ==
    \/ \E ws \in Ids : sockets[ws].readyState = "CONNECTING"
    \/ reconnectTimeoutRef.on

(* C38: while the component is mounted, isReconnecting is true if and only *)
(* if a socket is CONNECTING or the reconnect timer is pending; it is      *)
(* never left true when neither holds.                                     *)
C38_ReconnectingFlagMeansAttempt ==
    Mounted => (isReconnecting <=> AttemptUnderWay)

====
